---- MODULE Spec2Model ----
(***************************************************************************)
(* proxysql_cfgcheck: tokenizer, recursive-descent parser, Config view,    *)
(* the six built-in rules, the rule engine and the `check` command.        *)
(*                                                                         *)
(* Python strings are sequences of one-character strings, so that          *)
(* membership of ':', strip(), int() and is_absolute() are computed.       *)
(* A value of the tree is a record tagged by k: "str", "int", "float",     *)
(* "bool", "null", "obj" (v: a function from keys to values) or "list"     *)
(* (v: a sequence of values).  Python's None is the "null" value.          *)
(***************************************************************************)
EXTENDS Integers, Sequences, FiniteSets, TLC

VARIABLES
    \* --- the check command, the engine and its generator -----------------
    file,       \* what ConfigLoader(args.path).load() does: missing / syntax / ok+tree
    fail_fast,  \* args.fail_fast
    pc,         \* position of _handle_check: "load", "run", "done", "raised"
    rule_idx,   \* RuleEngine.run: index in self.rules of the rule being iterated
    rule_pos,   \* number of findings the current rule's generator has yielded
    findings,   \* _handle_check: the list `findings`
    status,     \* the value _handle_check returns (-1: none yet)
    \* --- the tokenizer ---------------------------------------------------
    text,       \* Tokenizer.text
    index,      \* Tokenizer.index (0-based)
    line,       \* Tokenizer.line
    column,     \* Tokenizer.column
    result,     \* Tokenizer.tokens: the list `result`
    anchors,    \* history: 0-based offset in text of each token's first character
    tok_state,  \* "scan", "done" (tokens returned) or "error" (ConfigSyntaxError)
    tok_error,  \* the raised error: message, position and (history) anchor offset
    \* --- the parser ------------------------------------------------------
    tokens,     \* _Parser.tokens
    p_state,    \* "run", "returned", or the exception parse() raised
    p_index,    \* _Parser.index
    p_tree,     \* parse: `config` while it runs, then what parse() returned
    p_error,    \* the raised exception: message and position
    \* --- integer coercion -----------------------------------------------
    co_value,   \* the value handed to _coerce_int
    co_rules,   \* what rules/builtin.py _coerce_int returned for it
    co_model    \* what config_model.py _coerce_int returned for it

vars == <<file, fail_fast, pc, rule_idx, rule_pos, findings, status,
          text, index, line, column, result, anchors, tok_state, tok_error,
          tokens, p_state, p_index, p_tree, p_error,
          co_value, co_rules, co_model>>

cliVars == <<file, fail_fast, pc, rule_idx, rule_pos, findings, status>>
tokVars == <<text, index, line, column, result, anchors, tok_state, tok_error>>
parVars == <<tokens, p_state, p_index, p_tree, p_error>>
coVars == <<co_value, co_rules, co_model>>

-----------------------------------------------------------------------------
(* Values of the tree                                                      *)

StrV(s) == [k |-> "str", v |-> s]
IntV(n) == [k |-> "int", v |-> n]
FloatV(lit) == [k |-> "float", v |-> lit]
BoolV(b) == [k |-> "bool", v |-> b]
NoneV == [k |-> "null"]
ObjV(f) == [k |-> "obj", v |-> f]
ListV(s) == [k |-> "list", v |-> s]

EmptyDict == [x \in {} |-> NoneV]

IsStr(x) == x.k = "str"
IsDict(x) == x.k = "obj"
IsList(x) == x.k = "list"
IsNone(x) == x.k = "null"

\* dict.get(key): None when the key is absent
Get(d, key) == IF key \in DOMAIN d THEN d[key] ELSE NoneV

Whitespace == {" ", "\t", "\n", "\r"}

RECURSIVE LStrip(_)
LStrip(s) == IF s # <<>> /\ Head(s) \in Whitespace THEN LStrip(Tail(s)) ELSE s

RECURSIVE RStrip(_)
RStrip(s) ==
    IF s # <<>> /\ s[Len(s)] \in Whitespace THEN RStrip(SubSeq(s, 1, Len(s) - 1)) ELSE s

\* str.strip()
Strip(s) == RStrip(LStrip(s))

\* `ch in s`
Contains(s, ch) == \E i \in 1..Len(s) : s[i] = ch

\* Python truth value of a tree value (`not x`, `x or y`)
Truthy(x) ==
    CASE x.k = "str" -> x.v # <<>>
      [] x.k = "int" -> x.v # 0
      [] x.k = "float" -> \E i \in 1..Len(x.v) : x.v[i] \notin {"0", ".", "-"}
      [] x.k = "bool" -> x.v
      [] x.k = "null" -> FALSE
      [] x.k = "obj" -> DOMAIN x.v # {}
      [] x.k = "list" -> x.v # <<>>

\* `x or d`
Or(x, d) == IF Truthy(x) THEN x ELSE d

\* hash(x) succeeds: lists and dicts are unhashable
Hashable(x) == x.k \notin {"obj", "list"}

DigitVal == [c \in {"0", "1", "2", "3", "4", "5", "6", "7", "8", "9"} |->
    CASE c = "0" -> 0 [] c = "1" -> 1 [] c = "2" -> 2 [] c = "3" -> 3 [] c = "4" -> 4
      [] c = "5" -> 5 [] c = "6" -> 6 [] c = "7" -> 7 [] c = "8" -> 8 [] c = "9" -> 9]

IsDigit(c) == c \in DOMAIN DigitVal

\* digits with single underscores between them (the body of an int() literal)
IntBodyOk(s) ==
    /\ s # <<>>
    /\ IsDigit(s[1]) /\ IsDigit(s[Len(s)])
    /\ \A i \in 1..Len(s) : IsDigit(s[i]) \/ s[i] = "_"
    /\ \A i \in 1..(Len(s) - 1) : ~(s[i] = "_" /\ s[i + 1] = "_")

RECURSIVE IntBodyVal(_, _)
IntBodyVal(s, acc) ==
    IF s = <<>> THEN acc
    ELSE IF Head(s) = "_" THEN IntBodyVal(Tail(s), acc)
    ELSE IntBodyVal(Tail(s), 10 * acc + DigitVal[Head(s)])

PyIntSigned(sign, body) ==
    IF IntBodyOk(body) THEN IntV(sign * IntBodyVal(body, 0)) ELSE NoneV

PyIntStripped(t) ==
    IF t # <<>> /\ t[1] \in {"+", "-"}
    THEN PyIntSigned(IF t[1] = "-" THEN -1 ELSE 1, Tail(t))
    ELSE PyIntSigned(1, t)

\* int(s) for a str s: surrounding whitespace is stripped, one sign is allowed;
\* NoneV stands for the ValueError
PyInt(s) == PyIntStripped(Strip(s))

\* rules/builtin.py _coerce_int
_coerce_int(value) ==
    CASE value.k = "bool" -> IntV(IF value.v THEN 1 ELSE 0)
      [] value.k = "int" -> value
      [] value.k = "str" -> PyInt(value.v)
      [] OTHER -> NoneV

\* config_model.py _coerce_int
model_coerce_int(value) ==
    CASE value.k = "bool" -> IntV(IF value.v THEN 1 ELSE 0)
      [] value.k = "int" -> value
      [] value.k = "str" -> PyInt(value.v)
      [] OTHER -> NoneV

-----------------------------------------------------------------------------
(* Config view                                                             *)

DictOrEmpty(value) == IF IsDict(value) THEN value.v ELSE EmptyDict
ListOrEmpty(value) == IF IsList(value) THEN value.v ELSE <<>>

get_block(raw, name) == DictOrEmpty(Get(raw, name))

get_list(raw, name) == ListOrEmpty(Get(raw, name))

\* the names, in the order given, that are absent from the root
RECURSIVE missing_blocks(_, _)
missing_blocks(raw, names) ==
    IF names = <<>> THEN <<>>
    ELSE (IF Head(names) \in DOMAIN raw THEN <<>> ELSE <<Head(names)>>)
         \o missing_blocks(raw, Tail(names))

\* `_coerce_int(entry.get("hostgroup")) if isinstance(entry, dict) else None`
EntryHostgroup(entry) ==
    IF IsDict(entry) THEN model_coerce_int(Get(entry.v, "hostgroup")) ELSE NoneV

HostgroupsOf(servers) ==
    {hg.v : hg \in {x \in {EntryHostgroup(servers[i]) : i \in 1..Len(servers)} : ~IsNone(x)}}

hostgroups(raw) == HostgroupsOf(get_list(raw, "mysql_servers"))

-----------------------------------------------------------------------------
(* Findings and the six built-in rules                                     *)
(* A rule's check is a generator: its trace is the sequence of findings it *)
(* yields (out) and whether it then raises instead of returning (raised).  *)

Finding(rule, message, severity, idx, value) ==
    [rule |-> rule, msg |-> message, severity |-> severity, index |-> idx, value |-> value]

If(cond, finding) == IF cond THEN <<finding>> ELSE <<>>

RECURSIVE Flatten(_)
Flatten(rs) == IF rs = <<>> THEN <<>> ELSE Head(rs).out \o Flatten(Tail(rs))

RequiredDefault == <<"admin_variables", "mysql_variables", "mysql_servers">>

RequiredBlocksRule_findings(missing) ==
    [i \in 1..Len(missing) |->
        Finding("required_blocks", "Missing required block", "error", -1, <<missing[i]>>)]

RequiredBlocksRule_check(raw) ==
    [out |-> RequiredBlocksRule_findings(missing_blocks(raw, RequiredDefault)),
     raised |-> FALSE]

AdminCredentialsRule_creds(creds) ==
    If(~IsStr(creds) \/ ~Contains(creds.v, ":"),
       Finding("admin_credentials",
               "admin_variables.admin_credentials must be set as 'user:password'",
               "error", -1, <<>>))

AdminCredentialsRule_ifaces(mysql_ifaces) ==
    If(~(IsStr(mysql_ifaces) /\ Strip(mysql_ifaces.v) # <<>>),
       Finding("admin_credentials",
               "admin_variables.mysql_ifaces should define at least one listener",
               "warning", -1, <<>>))

AdminCredentialsRule_block_suppressing(admin_block) ==
    IF AdminCredentialsRule_creds(Get(admin_block, "admin_credentials")) # <<>>
    THEN AdminCredentialsRule_creds(Get(admin_block, "admin_credentials"))
    ELSE AdminCredentialsRule_ifaces(Get(admin_block, "mysql_ifaces"))

AdminCredentialsRule_block(admin_block) ==
    AdminCredentialsRule_creds(Get(admin_block, "admin_credentials"))
    \o AdminCredentialsRule_ifaces(Get(admin_block, "mysql_ifaces"))

AdminCredentialsRule_check(raw) ==
    [out |-> AdminCredentialsRule_block(get_block(raw, "admin_variables")),
     raised |-> FALSE]

\* Equality and hash of a key element: True == 1 and False == 0 in Python.
\* (The floats of this model are not integral, so no float equals an int.)
PyKey(x) == IF x.k = "bool" THEN IntV(IF x.v THEN 1 ELSE 0) ELSE x

\* `key = (addr or "", port or -1, hostgroup or -1)`
ServerKey(addr, port, hostgroup) ==
    <<PyKey(Or(addr, StrV(<<>>))), Or(port, IntV(-1)), Or(hostgroup, IntV(-1))>>

\* `None not in (addr, port, hostgroup)`
ServerAllPresent(addr, port, hostgroup) ==
    ~IsNone(addr) /\ ~IsNone(port) /\ ~IsNone(hostgroup)

\* `not (0 < port < 65536)`
PortInvalid(port) == ~(0 < port /\ port < 65536)

HostgroupInvalid_off_by_one(hostgroup) == hostgroup <= 0

\* `hostgroup < 0`
HostgroupInvalid(hostgroup) == hostgroup < 0

\* the four per-field checks of one mysql_servers entry
MysqlServersRule_checks(addr, port, hostgroup, max_conn, idx) ==
    If(~IsStr(addr) \/ addr.v = <<>>,
       Finding("mysql_servers", ".address must be a non-empty string", "error", idx, <<>>))
    \o If(IsNone(port) \/ PortInvalid(port.v),
          Finding("mysql_servers", ".port must be a valid TCP port", "error", idx, <<>>))
    \o If(IsNone(hostgroup) \/ HostgroupInvalid(hostgroup.v),
          Finding("mysql_servers", ".hostgroup must be a non-negative integer", "error",
                  idx, <<>>))
    \o If(IsNone(max_conn),
          Finding("mysql_servers", ".max_connections is recommended", "warning", idx, <<>>))

\* the duplicate check of one entry: `key in seen` raises TypeError when the key holds
\* a list or an object (unhashable), after the entry's other findings were yielded
MysqlServersRule_dedup(checks, triple, key, present, seen) ==
    IF present /\ ~Hashable(key[1])
    THEN [out |-> checks, raised |-> TRUE, seen |-> seen]
    ELSE [out |-> checks
                  \o If(present /\ key \in seen,
                        Finding("mysql_servers", "Duplicate mysql_server entry", "error",
                                -1, triple)),
          raised |-> FALSE,
          seen |-> IF present THEN seen \cup {key} ELSE seen]

MysqlServersRule_fields(addr, port, hostgroup, max_conn, idx, seen) ==
    MysqlServersRule_dedup(MysqlServersRule_checks(addr, port, hostgroup, max_conn, idx),
                           <<addr, port, hostgroup>>,
                           ServerKey(addr, port, hostgroup),
                           ServerAllPresent(addr, port, hostgroup), seen)

\* One iteration of MysqlServersRule.check's loop: the findings it yields, whether
\* it raises, and `seen` after it.
MysqlServersRule_entry(entry, idx, seen) ==
    IF ~IsDict(entry)
    THEN [out |-> <<Finding("mysql_servers", "must be an object", "error", idx, <<>>)>>,
          raised |-> FALSE, seen |-> seen]
    ELSE MysqlServersRule_fields(Get(entry.v, "address"),
                                 _coerce_int(Get(entry.v, "port")),
                                 _coerce_int(Get(entry.v, "hostgroup")),
                                 Get(entry.v, "max_connections"), idx, seen)

\* The loop of MysqlServersRule.check from entry i on: one record per iteration run;
\* the loop ends at the iteration that raises.
RECURSIVE MysqlServersRule_loop(_, _, _)
RECURSIVE MysqlServersRule_step(_, _, _)
MysqlServersRule_step(servers, i, r) ==
    IF r.raised THEN <<r>> ELSE <<r>> \o MysqlServersRule_loop(servers, i + 1, r.seen)

MysqlServersRule_loop(servers, i, seen) ==
    IF i > Len(servers) THEN <<>>
    ELSE MysqlServersRule_step(servers, i, MysqlServersRule_entry(servers[i], i - 1, seen))

MysqlServersRule_trace(rs) == [out |-> Flatten(rs), raised |-> rs[Len(rs)].raised]

MysqlServersRule_list(servers) ==
    IF servers = <<>>
    THEN [out |-> <<Finding("mysql_servers",
                            "mysql_servers must define at least one hostgroup",
                            "error", -1, <<>>)>>,
          raised |-> FALSE]
    ELSE MysqlServersRule_trace(MysqlServersRule_loop(servers, 1, {}))

MysqlServersRule_check(raw) == MysqlServersRule_list(get_list(raw, "mysql_servers"))

MissingHostgroup_unguarded(hgs, hg) == hg \notin hgs

\* `hostgroups and dflt_hg not in hostgroups`
MissingHostgroup(hgs, hg) == hgs # {} /\ hg \notin hgs

MysqlUsersRule_fields(username, password, dflt_hg, idx, hgs) ==
    If(~IsStr(username) \/ username.v = <<>>,
       Finding("mysql_users", ".username must be set", "error", idx, <<>>))
    \o If(~IsStr(password) \/ password.v = <<>>,
          Finding("mysql_users", ".password must be set", "error", idx, <<>>))
    \o (IF IsNone(dflt_hg)
        THEN <<Finding("mysql_users", ".default_hostgroup must be an integer", "error",
                       idx, <<>>)>>
        ELSE If(MissingHostgroup(hgs, dflt_hg.v),
                Finding("mysql_users", "references missing hostgroup", "error", idx,
                        <<dflt_hg>>)))

\* One iteration of MysqlUsersRule.check's loop.
MysqlUsersRule_entry(entry, idx, hgs) ==
    IF ~IsDict(entry)
    THEN <<Finding("mysql_users", "must be an object", "error", idx, <<>>)>>
    ELSE MysqlUsersRule_fields(Get(entry.v, "username"), Get(entry.v, "password"),
                               _coerce_int(Get(entry.v, "default_hostgroup")), idx, hgs)

MysqlUsersRule_list(users, hgs) ==
    [i \in 1..Len(users) |-> [out |-> MysqlUsersRule_entry(users[i], i - 1, hgs)]]

MysqlUsersRule_check(raw) ==
    [out |-> Flatten(MysqlUsersRule_list(get_list(raw, "mysql_users"), hostgroups(raw))),
     raised |-> FALSE]

seen_ids_add_lost(seen_ids, rule_id) == seen_ids

\* `seen_ids.add(rule_id)`
seen_ids_add(seen_ids, rule_id) == seen_ids \cup {rule_id}

MysqlQueryRulesRule_fields(rule_id, dest, pattern, idx, hgs, seen_ids) ==
    [out |->
        (IF IsNone(rule_id)
         THEN <<Finding("mysql_query_rules", ".rule_id must be an integer", "error",
                        idx, <<>>)>>
         ELSE If(rule_id.v \in seen_ids,
                 Finding("mysql_query_rules", "Duplicate rule_id", "error", -1,
                         <<rule_id>>)))
        \o If(~IsNone(dest) /\ MissingHostgroup(hgs, dest.v),
              Finding("mysql_query_rules", "references missing hostgroup", "error",
                      idx, <<dest>>))
        \o If(~Truthy(pattern),
              Finding("mysql_query_rules", ".match_pattern should be defined",
                      "warning", idx, <<>>)),
     seen_ids |-> IF IsNone(rule_id) \/ rule_id.v \in seen_ids THEN seen_ids
                  ELSE seen_ids_add(seen_ids, rule_id.v)]

\* One iteration of MysqlQueryRulesRule.check's loop: findings and seen_ids after it.
MysqlQueryRulesRule_entry(entry, idx, hgs, seen_ids) ==
    IF ~IsDict(entry)
    THEN [out |-> <<Finding("mysql_query_rules", "must be an object", "error", idx, <<>>)>>,
          seen_ids |-> seen_ids]
    ELSE MysqlQueryRulesRule_fields(_coerce_int(Get(entry.v, "rule_id")),
                                    _coerce_int(Get(entry.v, "destination_hostgroup")),
                                    Get(entry.v, "match_pattern"), idx, hgs, seen_ids)

RECURSIVE MysqlQueryRulesRule_loop(_, _, _, _)
RECURSIVE MysqlQueryRulesRule_step(_, _, _, _)
MysqlQueryRulesRule_step(rules, i, hgs, r) ==
    <<r>> \o MysqlQueryRulesRule_loop(rules, i + 1, hgs, r.seen_ids)

MysqlQueryRulesRule_loop(rules, i, hgs, seen_ids) ==
    IF i > Len(rules) THEN <<>>
    ELSE MysqlQueryRulesRule_step(rules, i, hgs,
                                  MysqlQueryRulesRule_entry(rules[i], i - 1, hgs, seen_ids))

MysqlQueryRulesRule_check(raw) ==
    [out |-> Flatten(MysqlQueryRulesRule_loop(get_list(raw, "mysql_query_rules"), 1,
                                              hostgroups(raw), {})),
     raised |-> FALSE]

\* PurePosixPath(s).is_absolute()
IsAbsolute(s) == s # <<>> /\ s[1] = "/"

DatadirRule_value(datadir) ==
    IF ~IsStr(datadir) \/ Strip(datadir.v) = <<>>
    THEN <<Finding("datadir", "datadir should be set to a writable path", "warning",
                   -1, <<>>)>>
    ELSE If(~IsAbsolute(datadir.v),
            Finding("datadir", "datadir should be an absolute path", "warning", -1, <<>>))

DatadirRule_check(raw) == [out |-> DatadirRule_value(Get(raw, "datadir")), raised |-> FALSE]

builtin_rules ==
    <<"required_blocks", "admin_credentials", "mysql_servers", "mysql_users",
      "mysql_query_rules", "datadir">>

\* rule.check(config) for the rule registered under `slug`
Rule_check(slug, raw) ==
    CASE slug = "required_blocks" -> RequiredBlocksRule_check(raw)
      [] slug = "admin_credentials" -> AdminCredentialsRule_check(raw)
      [] slug = "mysql_servers" -> MysqlServersRule_check(raw)
      [] slug = "mysql_users" -> MysqlUsersRule_check(raw)
      [] slug = "mysql_query_rules" -> MysqlQueryRulesRule_check(raw)
      [] slug = "datadir" -> DatadirRule_check(raw)

-----
(* Inputs of the check command: the value trees the loader may hand over   *)

MaxServers == 2
MaxUsers == 2
MaxQueryRules == 3

\* sequences over S of length at most n
SeqsUpTo(S, n) == UNION {[1..m -> S] : m \in 0..n}

\* an optional member: Absent members are left out of the object
Absent == [k |-> "absent"]
MkDict(f) == [x \in {y \in DOMAIN f : f[y].k # "absent"} |-> f[x]]
Obj(f) == ObjV(MkDict(f))

\* a root object with one member replaced (or removed, with Absent)
With(raw, key, value) ==
    MkDict([x \in DOMAIN raw \cup {key} |-> IF x = key THEN value ELSE raw[x]])

h1 == <<"h", "1">>
h2 == <<"h", "2">>

Server(addr, port, hostgroup, max_conn) ==
    Obj([address |-> addr, port |-> port, hostgroup |-> hostgroup,
         max_connections |-> max_conn])

\* the fixture of tests/test_rules.py, and its variations that stay minimal and valid
MinimalConfigs ==
    {[datadir |-> StrV(d),
      admin_variables |-> Obj([admin_credentials |-> StrV(c), mysql_ifaces |-> StrV(m)]),
      mysql_variables |-> ObjV(EmptyDict),
      mysql_servers |-> ListV(<<Server(StrV(a), IntV(3306), IntV(0), mc)>>)] :
        d \in {<<"/", "v">>, <<"/">>},
        c \in {<<"a", ":", "b">>, <<"a", ":", "b", ":">>},
        m \in {<<"x">>, <<" ", "x", ":", "1">>},
        a \in {h1, h2},
        mc \in {IntV(100), IntV(0)}}

Base ==
    [datadir |-> StrV(<<"/", "v">>),
     admin_variables |-> Obj([admin_credentials |-> StrV(<<"a", ":", "b">>),
                              mysql_ifaces |-> StrV(<<"x">>)]),
     mysql_variables |-> ObjV(EmptyDict),
     mysql_servers |-> ListV(<<Server(StrV(h1), IntV(3306), IntV(0), IntV(100))>>)]

CredValues ==
    {Absent, NoneV, IntV(5), ListV(<<StrV(<<":">>)>>), StrV(<<>>), StrV(<<":">>),
     StrV(<<"a", "b">>), StrV(<<"a", ":", "b">>)}

IfaceValues ==
    {Absent, NoneV, IntV(6032), ListV(<<StrV(<<"x">>)>>), StrV(<<>>), StrV(<<" ">>),
     StrV(<<" ", "\t">>), StrV(<<" ", "x">>), StrV(<<"x">>)}

AdminConfigs ==
    {With(Base, "admin_variables", Obj([admin_credentials |-> c, mysql_ifaces |-> m])) :
        c \in CredValues, m \in IfaceValues}
    \cup {With(Base, "admin_variables", x) :
            x \in {Absent, NoneV, StrV(<<"a", ":", "b">>), ListV(<<>>)}}

DatadirConfigs ==
    {With(Base, "datadir", d) :
        d \in {Absent, NoneV, IntV(1), ListV(<<>>), StrV(<<>>), StrV(<<" ">>),
               StrV(<<"v">>), StrV(<<" ", "/", "v">>), StrV(<<"/", "v">>)}}

BlockConfigs ==
    {With(With(With(Base, "admin_variables", a), "mysql_variables", v), "mysql_servers", l) :
        a \in {Absent, Base["admin_variables"]},
        v \in {Absent, NoneV, ObjV(EmptyDict)},
        l \in {Absent, NoneV, ListV(<<>>), Base["mysql_servers"]}}

ServerEntries ==
    {Server(StrV(h1), IntV(3306), IntV(0), IntV(100)),
     Server(StrV(h1), IntV(3306), IntV(-1), IntV(100)),
     Server(StrV(h1), IntV(3306), IntV(1), IntV(100)),
     Server(StrV(h1), StrV(<<"3", "3", "0", "6">>), BoolV(TRUE), Absent),
     Server(StrV(h2), IntV(0), IntV(0), IntV(100)),
     Server(StrV(h2), IntV(-1), IntV(0), IntV(100)),
     Server(StrV(<<>>), IntV(65536), IntV(0), IntV(100)),
     Server(IntV(0), IntV(65536), IntV(0), NoneV),
     Server(ListV(<<StrV(h1)>>), IntV(3306), IntV(0), IntV(100)),
     Server(ListV(<<StrV(h1)>>), IntV(3306), Absent, IntV(100)),
     Server(Absent, IntV(3306), IntV(0), IntV(100)),
     Server(StrV(h1), IntV(3306), FloatV(<<"1", ".", "5">>), IntV(100)),
     IntV(5)}

ServerConfigs ==
    {With(Base, "mysql_servers", ListV(l)) : l \in SeqsUpTo(ServerEntries, MaxServers)}
    \cup {With(Base, "mysql_servers", StrV(h1))}

User(username, password, dflt) ==
    Obj([username |-> username, password |-> password, default_hostgroup |-> dflt])

UserEntries ==
    {User(StrV(<<"u">>), StrV(<<"p">>), IntV(0)),
     User(StrV(<<"u">>), StrV(<<"p">>), IntV(5)),
     User(StrV(<<"u">>), StrV(<<"p">>), StrV(<<"5">>)),
     User(StrV(<<"u">>), StrV(<<"p">>), StrV(<<" ", "1">>)),
     User(StrV(<<"u">>), StrV(<<"p">>), StrV(<<"x">>)),
     User(StrV(<<"u">>), StrV(<<"p">>), FloatV(<<"1", ".", "5">>)),
     User(StrV(<<"u">>), StrV(<<>>), BoolV(TRUE)),
     User(Absent, IntV(1), Absent),
     StrV(<<"u">>)}

\* mysql_servers lists giving the hostgroup sets {}, {}, {0}, {0, 1} and {5}
HostgroupChoices ==
    {<<>>,
     <<Server(StrV(h1), IntV(3306), StrV(<<"x">>), IntV(100))>>,
     <<Server(StrV(h1), IntV(3306), IntV(0), IntV(100))>>,
     <<Server(StrV(h1), IntV(3306), IntV(0), IntV(100)),
       Server(StrV(h2), IntV(3306), IntV(1), IntV(100))>>,
     <<Server(StrV(h1), IntV(3306), IntV(5), IntV(100))>>}

UserConfigs ==
    {With(With(Base, "mysql_servers", ListV(sv)), "mysql_users", ListV(l)) :
        sv \in HostgroupChoices, l \in SeqsUpTo(UserEntries, MaxUsers)}

QueryRule(rule_id, dest, pattern) ==
    Obj([rule_id |-> rule_id, destination_hostgroup |-> dest, match_pattern |-> pattern])

QueryRuleEntries ==
    {QueryRule(IntV(1), IntV(0), StrV(<<"p">>)),
     QueryRule(IntV(1), Absent, Absent),
     QueryRule(StrV(<<"1">>), IntV(5), StrV(<<"p">>)),
     QueryRule(BoolV(TRUE), StrV(<<"0">>), StrV(<<>>)),
     QueryRule(IntV(2), IntV(0), StrV(<<"p">>)),
     QueryRule(StrV(<<"x">>), IntV(0), StrV(<<"p">>)),
     QueryRule(Absent, FloatV(<<"1", ".", "5">>), StrV(<<"p">>)),
     IntV(1)}

QueryRuleConfigs ==
    {With(With(Base, "mysql_servers", ListV(sv)), "mysql_query_rules", ListV(l)) :
        sv \in {<<>>, <<Server(StrV(h1), IntV(3306), IntV(0), IntV(100))>>},
        l \in SeqsUpTo(QueryRuleEntries, MaxQueryRules)}

\* configs on which several rules have something to report
MixedConfigs ==
    {With(With(With(With(With(Base, "datadir", d), "admin_variables", a),
                         "mysql_servers", ListV(sv)),
                    "mysql_users", ListV(<<User(StrV(<<"u">>), StrV(<<>>), IntV(5))>>)),
               "mysql_query_rules", q) :
        d \in {StrV(<<"v">>), StrV(<<"/", "v">>)},
        a \in {Absent, ObjV(EmptyDict), Base["admin_variables"]},
        sv \in {<<Server(StrV(h1), IntV(3306), IntV(0), Absent)>>,
                <<Server(ListV(<<StrV(h1)>>), IntV(3306), IntV(0), Absent)>>},
        q \in {Absent, ListV(<<QueryRule(IntV(1), IntV(5), Absent)>>)}}

Configs ==
    MinimalConfigs \cup AdminConfigs \cup DatadirConfigs \cup BlockConfigs
    \cup ServerConfigs \cup UserConfigs \cup QueryRuleConfigs \cup MixedConfigs

\* the outcomes of ConfigLoader(args.path).load()
Files ==
    {[kind |-> "missing"], [kind |-> "syntax"]} \cup {[kind |-> "ok", raw |-> c] : c \in Configs}

-----------------------------------------------------------------------------
(* The check command (_handle_check) driving RuleEngine.run                *)

\* cli.py _load_rules
_load_rules == builtin_rules

\* RuleEngine.__init__: self.rules = list(rules)
RuleEngine_rules == _load_rules

RuleEngine_current_reversed(i) == RuleEngine_rules[Len(RuleEngine_rules) + 1 - i]

\* `for rule in self.rules`: the rule of the i-th iteration
RuleEngine_current(i) == RuleEngine_rules[i]

\* the generator rule.check(config) the engine is delegating to
CurrentTrace == Rule_check(RuleEngine_current(rule_idx), file.raw)

\* `has_errors = any(...)` and `return 0 if not has_errors else 2`
ExitStatus(fs) == IF \E i \in 1..Len(fs) : fs[i].severity = "error" THEN 2 ELSE 0

\* _coerce_int has not been called
NotCoerced == [k |-> "not called"]
CoerceOff == co_value = NoneV /\ co_rules = NotCoerced /\ co_model = NotCoerced

InitOther ==
    /\ CoerceOff
    /\ text = <<>> /\ index = 0 /\ line = 1 /\ column = 1
    /\ result = <<>> /\ anchors = <<>> /\ tok_state = "off" /\ tok_error = NoneV
    /\ tokens = <<>> /\ p_state = "off" /\ p_index = 0 /\ p_tree = NoneV
    /\ p_error = NoneV

Init ==
    /\ file \in Files
    /\ fail_fast \in BOOLEAN
    /\ pc = "load"
    /\ rule_idx = 0
    /\ rule_pos = 0
    /\ findings = <<>>
    /\ status = -1
    /\ InitOther

\* load() raises FileNotFoundError: return 2
LoadMissing ==
    /\ pc = "load" /\ file.kind = "missing"
    /\ pc' = "done" /\ status' = 2
    /\ UNCHANGED <<file, fail_fast, rule_idx, rule_pos, findings>>
    /\ UNCHANGED <<tokVars, parVars, coVars>>

\* load() raises ConfigSyntaxError: return 2
LoadSyntaxError ==
    /\ pc = "load" /\ file.kind = "syntax"
    /\ pc' = "done" /\ status' = 2
    /\ UNCHANGED <<file, fail_fast, rule_idx, rule_pos, findings>>
    /\ UNCHANGED <<tokVars, parVars, coVars>>

\* load() returns the tree; the engine is built and its first rule is entered
LoadOk ==
    /\ pc = "load" /\ file.kind = "ok"
    /\ pc' = "run" /\ rule_idx' = 1 /\ rule_pos' = 0 /\ findings' = <<>>
    /\ UNCHANGED <<file, fail_fast, status>>
    /\ UNCHANGED <<tokVars, parVars, coVars>>

\* the current rule yields its next finding; _handle_check appends it and, in
\* fail-fast mode, breaks on an error and returns
FailFastBreak_on_any_finding(finding) == fail_fast

\* `if args.fail_fast and finding.severity == Severity.ERROR: break`
FailFastBreak(finding) == fail_fast /\ finding.severity = "error"

YieldFinding(finding) ==
    /\ findings' = Append(findings, finding)
    /\ rule_pos' = rule_pos + 1
    /\ IF FailFastBreak(finding)
       THEN pc' = "done" /\ status' = ExitStatus(findings')
       ELSE UNCHANGED <<pc, status>>

YieldFrom(trace) ==
    /\ rule_pos < Len(trace.out)
    /\ YieldFinding(trace.out[rule_pos + 1])

Yield ==
    /\ pc = "run"
    /\ YieldFrom(CurrentTrace)
    /\ UNCHANGED <<file, fail_fast, rule_idx>>
    /\ UNCHANGED <<tokVars, parVars, coVars>>

\* the generator has yielded all its findings and returns (raises, if `raised`)
Exhausted(trace, raised) == rule_pos = Len(trace.out) /\ trace.raised = raised

\* the current rule's generator returns; the engine enters the next rule
NextRule ==
    /\ pc = "run"
    /\ rule_idx < Len(RuleEngine_rules)
    /\ Exhausted(CurrentTrace, FALSE)
    /\ rule_idx' = rule_idx + 1 /\ rule_pos' = 0
    /\ UNCHANGED <<file, fail_fast, pc, findings, status>>
    /\ UNCHANGED <<tokVars, parVars, coVars>>

\* the current rule's generator raises: the exception leaves run and _handle_check
Raise ==
    /\ pc = "run"
    /\ Exhausted(CurrentTrace, TRUE)
    /\ pc' = "raised"
    /\ UNCHANGED <<file, fail_fast, rule_idx, rule_pos, findings, status>>
    /\ UNCHANGED <<tokVars, parVars, coVars>>

\* the last rule's generator returns: the loop ends and _handle_check returns
Finish ==
    /\ pc = "run"
    /\ rule_idx = Len(RuleEngine_rules)
    /\ Exhausted(CurrentTrace, FALSE)
    /\ pc' = "done" /\ status' = ExitStatus(findings)
    /\ UNCHANGED <<file, fail_fast, rule_idx, rule_pos, findings>>
    /\ UNCHANGED <<tokVars, parVars, coVars>>

Next == LoadMissing \/ LoadSyntaxError \/ LoadOk \/ Yield \/ NextRule \/ Raise \/ Finish

Spec == Init /\ [][Next]_vars

-----------------------------------------------------------------------------
(* Properties of the check command, the engine and the rules (under Spec)  *)

\* the loader returned a tree and the engine was entered
Ran == file.kind = "ok" /\ pc # "load"

\* the engine has exhausted rule number r and gone on to the next one
RuleDone(r) == Ran /\ rule_idx > r

Count(fs, P(_)) == Cardinality({i \in 1..Len(fs) : P(fs[i])})

OfRule(fs, slug) == SelectSeq(fs, LAMBDA f : f.rule = slug)

IsError(f) == f.severity = "error"

\* what the registered rules yield, each rule's findings in full before the next
\* rule's, from rule i on, up to the first rule that raises
RECURSIVE InRegistrationOrder(_, _)
InRegistrationOrder(raw, i) ==
    IF i > Len(builtin_rules) THEN <<>>
    ELSE LET t == Rule_check(builtin_rules[i], raw)
         IN  t.out \o (IF t.raised THEN <<>> ELSE InRegistrationOrder(raw, i + 1))

\* the findings of rules 1..n, in registration order
RECURSIVE FirstRules(_, _)
FirstRules(raw, n) ==
    IF n = 0 THEN <<>>
    ELSE FirstRules(raw, n - 1) \o Rule_check(builtin_rules[n], raw).out

\* C1: RuleEngine.run over the six built-in rules never raises, whatever tree the
\* parser produced: a structurally wrong entry is reported as a Finding.
\* (Violated: a mysql_servers entry whose address is a non-empty list or object, and
\* whose port and hostgroup coerce, makes `key in seen` raise TypeError.)
C1_NeverRaises == pc # "raised"

\* C2: the findings collected so far are, at every moment, the complete findings of
\* the rules registered before the current one, in registration order, followed by
\* the first findings of the current rule; so no later rule's finding precedes an
\* earlier rule's, a rule is entered only when its predecessor is exhausted, and a
\* full run yields the concatenation of all the rules' findings.
C2_RegistrationOrder ==
    Ran =>
        /\ rule_idx \in 1..Len(builtin_rules)
        /\ rule_pos <= Len(Rule_check(builtin_rules[rule_idx], file.raw).out)
        /\ findings = FirstRules(file.raw, rule_idx - 1)
                      \o SubSeq(Rule_check(builtin_rules[rule_idx], file.raw).out, 1, rule_pos)
        /\ (pc = "done" /\ ~fail_fast => findings = InRegistrationOrder(file.raw, 1))

C2_Witness ==
    /\ Ran /\ pc = "done" /\ ~fail_fast
    /\ {findings[i].rule : i \in 1..Len(findings)} = {builtin_rules[i] : i \in 1..6}

\* C3: the check command returns 0 exactly when the config parses and the engine's
\* findings hold no error, and 2 on any error finding, on a missing file and on a
\* syntax error, with and without --fail-fast.
\* (Violated: when a rule raises, the findings hold an error and nothing is returned
\* without --fail-fast, while 2 is returned with it.)
C3_ExitStatus ==
    pc \in {"done", "raised"} =>
        status = IF file.kind # "ok" THEN 2
                 ELSE IF \E i \in 1..Len(InRegistrationOrder(file.raw, 1)) :
                            IsError(InRegistrationOrder(file.raw, 1)[i])
                      THEN 2 ELSE 0

Blank(s) == \A i \in 1..Len(s) : s[i] \in Whitespace

\* a str of the form user:password
UserPassword(x) == IsStr(x) /\ \E i \in 2..(Len(x.v) - 1) : x.v[i] = ":"

MinimalServer(e) ==
    /\ IsDict(e)
    /\ {"address", "port", "hostgroup", "max_connections"} \subseteq DOMAIN e.v
    /\ IsStr(e.v["address"]) /\ e.v["address"].v # <<>>
    /\ e.v["port"] = IntV(3306)
    /\ e.v["hostgroup"] = IntV(0)
    /\ ~IsNone(e.v["max_connections"])

\* the minimal valid config of the claim
MinimalValid(raw) ==
    /\ DOMAIN raw = {"datadir", "admin_variables", "mysql_variables", "mysql_servers"}
    /\ IsStr(raw["datadir"]) /\ ~Blank(raw["datadir"].v) /\ raw["datadir"].v[1] = "/"
    /\ IsDict(raw["admin_variables"])
    /\ DOMAIN raw["admin_variables"].v = {"admin_credentials", "mysql_ifaces"}
    /\ UserPassword(raw["admin_variables"].v["admin_credentials"])
    /\ IsStr(raw["admin_variables"].v["mysql_ifaces"])
    /\ ~Blank(raw["admin_variables"].v["mysql_ifaces"].v)
    /\ IsDict(raw["mysql_variables"]) /\ DOMAIN raw["mysql_variables"].v = {}
    /\ IsList(raw["mysql_servers"]) /\ Len(raw["mysql_servers"].v) = 1
    /\ MinimalServer(raw["mysql_servers"].v[1])

\* C4: the six built-in rules yield no finding on a minimal valid config, and the
\* run completes.
C4_MinimalValidClean ==
    (Ran /\ MinimalValid(file.raw)) =>
        /\ findings = <<>>
        /\ pc # "raised"
        /\ (pc = "done" => rule_idx = Len(builtin_rules))

C4_Witness == Ran /\ MinimalValid(file.raw) /\ pc = "done" /\ findings = <<>>

CredsWellFormed(block) ==
    /\ "admin_credentials" \in DOMAIN block
    /\ IsStr(block["admin_credentials"])
    /\ block["admin_credentials"].v # <<>>
    /\ \E i \in 1..Len(block["admin_credentials"].v) : block["admin_credentials"].v[i] = ":"

\* mysql_ifaces is absent (no such key, or null) or a blank string
IfacesAbsentOrBlank(block) ==
    \/ "mysql_ifaces" \notin DOMAIN block
    \/ IsNone(block["mysql_ifaces"])
    \/ IsStr(block["mysql_ifaces"]) /\ Blank(block["mysql_ifaces"].v)

\* mysql_ifaces is a string with a character that is not whitespace
IfacesNonBlankString(block) ==
    /\ "mysql_ifaces" \in DOMAIN block
    /\ IsStr(block["mysql_ifaces"])
    /\ ~Blank(block["mysql_ifaces"].v)

AdminError(f) == f.rule = "admin_credentials" /\ f.severity = "error"
AdminWarning(f) == f.rule = "admin_credentials" /\ f.severity = "warning"

\* the rule's findings are one error iff wantError, one warning iff wantWarning,
\* the error first
AdminFindingsAre(wantError, wantWarning) ==
    /\ Count(findings, AdminError) = IF wantError THEN 1 ELSE 0
    /\ Count(findings, AdminWarning) = IF wantWarning THEN 1 ELSE 0
    /\ Len(OfRule(findings, "admin_credentials"))
         = Count(findings, AdminError) + Count(findings, AdminWarning)
    /\ (wantError /\ wantWarning => AdminError(OfRule(findings, "admin_credentials")[1]))

\* C5 as stated: one error exactly when admin_credentials is not a non-empty string
\* containing ':', one warning exactly when mysql_ifaces is absent or blank, neither
\* suppressing the other, the error first.
\* (Violated: a mysql_ifaces that is present and not a string, such as the
\* number 6032, is neither absent nor blank and still draws the warning.)
C5_AbsentOrBlank ==
    RuleDone(2) =>
        AdminFindingsAre(~CredsWellFormed(get_block(file.raw, "admin_variables")),
                         IfacesAbsentOrBlank(get_block(file.raw, "admin_variables")))

\* C5 amended: one error exactly when admin_credentials is not a non-empty string
\* containing ':', and one warning exactly when mysql_ifaces is not a string with
\* at least one non-whitespace character (absent, null, blank, or not a string at
\* all); neither check suppresses the other, and the error comes first.
C5_Independent ==
    RuleDone(2) =>
        AdminFindingsAre(~CredsWellFormed(get_block(file.raw, "admin_variables")),
                         ~IfacesNonBlankString(get_block(file.raw, "admin_variables")))

\* an empty admin_variables object gave the error, then the warning
C5_Witness ==
    /\ RuleDone(2)
    /\ "admin_variables" \in DOMAIN file.raw
    /\ IsDict(file.raw["admin_variables"])
    /\ DOMAIN file.raw["admin_variables"].v = {}
    /\ Len(findings) >= 2
    /\ AdminError(findings[1]) /\ AdminWarning(findings[2])

Servers == get_list(file.raw, "mysql_servers")

\* entry i of mysql_servers is an object with address, port and hostgroup present
HasTriple(i) ==
    /\ IsDict(Servers[i])
    /\ ~IsNone(Get(Servers[i].v, "address"))
    /\ ~IsNone(_coerce_int(Get(Servers[i].v, "port")))
    /\ ~IsNone(_coerce_int(Get(Servers[i].v, "hostgroup")))

\* its address, port and hostgroup
Triple(i) ==
    <<Get(Servers[i].v, "address"), _coerce_int(Get(Servers[i].v, "port")),
      _coerce_int(Get(Servers[i].v, "hostgroup"))>>

WithTriple(t) == {i \in 1..Len(Servers) : HasTriple(i) /\ Triple(i) = t}

DuplicatesReported(t) ==
    {i \in 1..Len(findings) :
        /\ findings[i].rule = "mysql_servers"
        /\ findings[i].msg = "Duplicate mysql_server entry"
        /\ findings[i].value = t}

\* C6: among the entries with address, port and hostgroup present, an entry draws a
\* duplicate-entry error exactly when an earlier one has the same address, port and
\* hostgroup: k entries with one triple draw k-1 errors for that triple, and entries
\* that differ in one of the three (0 and -1 included) draw none for each other.
\* (Violated: `port or -1` and `hostgroup or -1` make 0 and -1 the same key, and
\* `addr or ""` does the same to every falsy address.)
C6_DuplicateTriples ==
    RuleDone(3) =>
        \A i \in 1..Len(Servers) :
            HasTriple(i) =>
                Cardinality(DuplicatesReported(Triple(i)))
                    = Cardinality(WithTriple(Triple(i))) - 1

QueryRules == get_list(file.raw, "mysql_query_rules")

\* the findings of each iteration of the mysql_query_rules loop
QueryRuleRuns == MysqlQueryRulesRule_loop(QueryRules, 1, hostgroups(file.raw), {})

\* the integer the rule_id of entry i coerces to (NoneV: none, or not an object)
RuleIdOf(i) ==
    IF IsDict(QueryRules[i]) THEN _coerce_int(Get(QueryRules[i].v, "rule_id")) ELSE NoneV

IsDuplicateId(f) == f.msg = "Duplicate rule_id"
IsRuleIdNotInteger(f) == f.msg = ".rule_id must be an integer"

\* C7: in list order, the first entry whose rule_id coerces to an integer registers
\* it without error, every later entry coercing to the same integer draws exactly
\* one duplicate-id error, yielded while that later entry is processed, and an
\* entry whose rule_id does not coerce draws 'must be an integer' and no duplicate
\* error.
C7_DuplicateRuleIds ==
    RuleDone(5) =>
        /\ OfRule(findings, "mysql_query_rules") = Flatten(QueryRuleRuns)
        /\ Len(QueryRuleRuns) = Len(QueryRules)
        /\ \A i \in 1..Len(QueryRules) :
            /\ Count(QueryRuleRuns[i].out, IsDuplicateId)
                 = IF /\ ~IsNone(RuleIdOf(i))
                      /\ \E j \in 1..(i - 1) : RuleIdOf(j) = RuleIdOf(i)
                   THEN 1 ELSE 0
            /\ \A n \in 1..Len(QueryRuleRuns[i].out) :
                 IsDuplicateId(QueryRuleRuns[i].out[n])
                    => QueryRuleRuns[i].out[n].value = <<RuleIdOf(i)>>
            /\ Count(QueryRuleRuns[i].out, IsRuleIdNotInteger)
                 = IF IsDict(QueryRules[i]) /\ IsNone(RuleIdOf(i)) THEN 1 ELSE 0

\* two entries share rule_id 1: one duplicate error, drawn by the second
C7_Witness ==
    /\ RuleDone(5) /\ pc = "done"
    /\ Len(QueryRules) >= 2
    /\ RuleIdOf(1) = IntV(1) /\ RuleIdOf(2) = IntV(1)
    /\ Count(QueryRuleRuns[1].out, IsDuplicateId) = 0
    /\ Count(QueryRuleRuns[2].out, IsDuplicateId) = 1
    /\ Count(findings, IsDuplicateId) = Len(QueryRules) - 1

Users == get_list(file.raw, "mysql_users")

DefaultHostgroupOf(i) == _coerce_int(Get(Users[i].v, "default_hostgroup"))

\* findings of the mysql_users rule with message m about entry i
UserFindings(i, m) ==
    {n \in 1..Len(findings) :
        /\ findings[n].rule = "mysql_users"
        /\ findings[n].msg = m
        /\ findings[n].index = i - 1}

\* C8: an object entry of mysql_users draws 'references missing hostgroup' exactly
\* when its default_hostgroup coerces to an integer, the hostgroup set derived from
\* mysql_servers is not empty and the integer is not in it; it draws 'must be an
\* integer' exactly when default_hostgroup does not coerce; with an empty set no
\* reference error is drawn at all.
C8_MissingHostgroup ==
    RuleDone(4) =>
        /\ \A i \in 1..Len(Users) :
            /\ Cardinality(UserFindings(i, "references missing hostgroup"))
                 = IF /\ IsDict(Users[i])
                      /\ ~IsNone(DefaultHostgroupOf(i))
                      /\ hostgroups(file.raw) # {}
                      /\ DefaultHostgroupOf(i).v \notin hostgroups(file.raw)
                   THEN 1 ELSE 0
            /\ Cardinality(UserFindings(i, ".default_hostgroup must be an integer"))
                 = IF IsDict(Users[i]) /\ IsNone(DefaultHostgroupOf(i)) THEN 1 ELSE 0
        /\ hostgroups(file.raw) = {} =>
             \A n \in 1..Len(findings) :
                ~(findings[n].rule = "mysql_users"
                  /\ findings[n].msg = "references missing hostgroup")

\* default_hostgroup 5 while the only declared hostgroup is 0
C8_Witness ==
    /\ RuleDone(4)
    /\ hostgroups(file.raw) = {0}
    /\ \E i \in 1..Len(Users) :
         /\ IsDict(Users[i]) /\ DefaultHostgroupOf(i) = IntV(5)
         /\ \E n \in UserFindings(i, "references missing hostgroup") :
              findings[n].value = <<IntV(5)>>

-----------------------------------------------------------------------------
(* The tokenizer (config_parser.py Tokenizer), one action per branch of    *)
(* the loop of tokens()                                                    *)

MaxText == 4

\* stands for the one character U+00B2 (superscript two): str.isdigit() holds of
\* it, and int() and float() reject it
Sup2 == "SUPERSCRIPT TWO"

\* the characters the input texts are made of
TextChars == {" ", "\n", "#", "\"", "\\", "=", "(", "1", ".", "-", "n", "_", "?", Sup2}

SYMBOLS == {"=", ",", "{", "}", "(", ")"}

Lowercase ==
    <<"a", "b", "c", "d", "e", "f", "g", "h", "i", "j", "k", "l", "m", "n", "o", "p",
      "q", "r", "s", "t", "u", "v", "w", "x", "y", "z">>
Uppercase ==
    <<"A", "B", "C", "D", "E", "F", "G", "H", "I", "J", "K", "L", "M", "N", "O", "P",
      "Q", "R", "S", "T", "U", "V", "W", "X", "Y", "Z">>

Range(f) == {f[i] : i \in DOMAIN f}

\* str.isdigit, str.isalpha, str.isalnum on the characters of the model
isdigit(c) == c \in DOMAIN DigitVal \cup {Sup2}
isalpha(c) == c \in Range(Lowercase) \cup Range(Uppercase)
isalnum(c) == isalpha(c) \/ isdigit(c)

Position(cur) == [line |-> cur.line, column |-> cur.column]

Token(kind, value, position) == [kind |-> kind, value |-> value, position |-> position]

Cursor == [index |-> index, line |-> line, column |-> column]

_eof(cur) == cur.index >= Len(text)
_peek(cur) == text[cur.index + 1]
_peek_next(cur) == IF cur.index + 1 >= Len(text) THEN "\\0" ELSE text[cur.index + 2]

_advance(cur, newline) ==
    [index |-> cur.index + 1,
     line |-> IF newline THEN cur.line + 1 ELSE cur.line,
     column |-> IF newline THEN 1 ELSE cur.column + 1]

\* `while not self._eof and <peek satisfies the test>: self._advance()`
RECURSIVE WhileDigit(_)
WhileDigit(cur) ==
    IF ~_eof(cur) /\ isdigit(_peek(cur)) THEN WhileDigit(_advance(cur, FALSE)) ELSE cur

RECURSIVE WhileIdent(_)
WhileIdent(cur) ==
    IF ~_eof(cur) /\ (isalnum(_peek(cur)) \/ _peek(cur) = "_")
    THEN WhileIdent(_advance(cur, FALSE)) ELSE cur

RECURSIVE _consume_comment(_)
_consume_comment(cur) ==
    IF ~_eof(cur) /\ _peek(cur) # "\n" THEN _consume_comment(_advance(cur, FALSE)) ELSE cur

\* the characters between two cursors: "".join(literal)
Literal(from, to) == SubSeq(text, from.index + 1, to.index)

_translate_escape(ch) ==
    CASE ch = "n" -> "\n" [] ch = "t" -> "\t" [] OTHER -> ch

_unescape_string(literal) == literal

\* what a _consume_* call does: the cursor it leaves, and the token it returns or
\* the ConfigSyntaxError it raises
Returns(cur, token) == [cur |-> cur, raised |-> FALSE, token |-> token, error |-> NoneV]
Raises(cur, message, start) ==
    [cur |-> cur, raised |-> TRUE, token |-> NoneV,
     error |-> [message |-> message, position |-> Position(start), anchor |-> start.index]]

\* the loop of _consume_string, the opening quote consumed
RECURSIVE StringLoop(_, _, _)
StringEscape(start, cur, chars) ==
    IF _eof(cur) THEN Raises(cur, "Unterminated escape sequence", start)
    ELSE StringLoop(start, _advance(cur, FALSE), Append(chars, _translate_escape(_peek(cur))))

StringLoop(start, cur, chars) ==
    IF _eof(cur) THEN Raises(cur, "Unterminated string literal", start)
    ELSE IF _peek(cur) = "\""
         THEN Returns(_advance(cur, FALSE),
                      Token("STRING", _unescape_string(chars), Position(start)))
    ELSE IF _peek(cur) = "\\" THEN StringEscape(start, _advance(cur, FALSE), chars)
    ELSE StringLoop(start, _advance(cur, FALSE), Append(chars, _peek(cur)))

_consume_string(start) == StringLoop(start, _advance(start, FALSE), <<>>)

_consume_symbol(start) ==
    Returns(_advance(start, FALSE), Token(_peek(start), <<_peek(start)>>, Position(start)))

NumberEnd(start, cur) == Returns(cur, Token("NUMBER", Literal(start, cur), Position(start)))

\* after the '.' of a number
NumberFraction(start, cur) ==
    IF _eof(cur) \/ ~isdigit(_peek(cur)) THEN Raises(cur, "Invalid number literal", start)
    ELSE NumberEnd(start, WhileDigit(cur))

\* after the integer digits of a number
NumberDot(start, cur) ==
    IF ~_eof(cur) /\ _peek(cur) = "." THEN NumberFraction(start, _advance(cur, FALSE))
    ELSE NumberEnd(start, cur)

_consume_number(start) ==
    NumberDot(start, WhileDigit(IF _peek(start) = "-" THEN _advance(start, FALSE) ELSE start))

IdentifierEnd(start, cur) == Returns(cur, Token("IDENT", Literal(start, cur), Position(start)))

_consume_identifier(start) == IdentifierEnd(start, WhileIdent(start))

InitTok ==
    /\ text \in SeqsUpTo(TextChars, MaxText)
    /\ index = 0 /\ line = 1 /\ column = 1
    /\ result = <<>> /\ anchors = <<>>
    /\ tok_state = "scan" /\ tok_error = NoneV
    /\ file = [kind |-> "missing"] /\ fail_fast = FALSE /\ pc = "off"
    /\ rule_idx = 0 /\ rule_pos = 0 /\ findings = <<>> /\ status = -1
    /\ tokens = <<>> /\ p_state = "off" /\ p_index = 0 /\ p_tree = NoneV
    /\ p_error = NoneV
    /\ CoerceOff

Scanning == tok_state = "scan" /\ ~_eof(Cursor)

MoveTo(cur) == index' = cur.index /\ line' = cur.line /\ column' = cur.column

\* `result.append(self._consume_...())`, or the error it raises leaves tokens()
Consumed(r) ==
    /\ MoveTo(r.cur)
    /\ IF ~r.raised
       THEN /\ result' = Append(result, r.token)
            /\ anchors' = Append(anchors, index)
            /\ UNCHANGED <<tok_state, tok_error>>
       ELSE /\ tok_state' = "error"
            /\ tok_error' = r.error
            /\ UNCHANGED <<result, anchors>>

TokBlank ==
    /\ Scanning /\ _peek(Cursor) \in {" ", "\t", "\r"}
    /\ MoveTo(_advance(Cursor, FALSE))
    /\ UNCHANGED <<text, result, anchors, tok_state, tok_error, cliVars, parVars, coVars>>

TokNewline ==
    /\ Scanning /\ _peek(Cursor) = "\n"
    /\ MoveTo(_advance(Cursor, TRUE))
    /\ UNCHANGED <<text, result, anchors, tok_state, tok_error, cliVars, parVars, coVars>>

TokComment ==
    /\ Scanning /\ _peek(Cursor) = "#"
    /\ MoveTo(_consume_comment(Cursor))
    /\ UNCHANGED <<text, result, anchors, tok_state, tok_error, cliVars, parVars, coVars>>

TokString ==
    /\ Scanning /\ _peek(Cursor) = "\""
    /\ Consumed(_consume_string(Cursor))
    /\ UNCHANGED <<text, cliVars, parVars, coVars>>

TokSymbol ==
    /\ Scanning /\ _peek(Cursor) \in SYMBOLS
    /\ Consumed(_consume_symbol(Cursor))
    /\ UNCHANGED <<text, cliVars, parVars, coVars>>

StartsNumber(cur) ==
    isdigit(_peek(cur)) \/ (_peek(cur) = "-" /\ isdigit(_peek_next(cur)))

StartsIdentifier(cur) == isalpha(_peek(cur)) \/ _peek(cur) = "_"

TokNumber ==
    /\ Scanning /\ StartsNumber(Cursor)
    /\ Consumed(_consume_number(Cursor))
    /\ UNCHANGED <<text, cliVars, parVars, coVars>>

TokIdentifier ==
    /\ Scanning /\ StartsIdentifier(Cursor)
    /\ Consumed(_consume_identifier(Cursor))
    /\ UNCHANGED <<text, cliVars, parVars, coVars>>

\* `raise ConfigSyntaxError(f"Unexpected character '{char}'", self._position)`
TokUnexpected ==
    /\ Scanning
    /\ _peek(Cursor) \notin {" ", "\t", "\r", "\n", "#", "\""} \cup SYMBOLS
    /\ ~StartsNumber(Cursor) /\ ~StartsIdentifier(Cursor)
    /\ tok_state' = "error"
    /\ tok_error' = Raises(Cursor, "Unexpected character", Cursor).error
    /\ UNCHANGED <<text, index, line, column, result, anchors, cliVars, parVars, coVars>>

\* `return result`
TokReturn ==
    /\ tok_state = "scan" /\ _eof(Cursor)
    /\ tok_state' = "done"
    /\ UNCHANGED <<text, index, line, column, result, anchors, tok_error, cliVars, parVars, coVars>>

NextTok ==
    \/ TokBlank \/ TokNewline \/ TokComment \/ TokString \/ TokSymbol
    \/ TokNumber \/ TokIdentifier \/ TokUnexpected \/ TokReturn

SpecTok == InitTok /\ [][NextTok]_vars

\* 1 + the number of newlines among the first `offset` characters of the text
TrueLine(offset) == 1 + Cardinality({i \in 1..offset : text[i] = "\n"})

\* 1 + the number of characters after the last of those newlines
TrueColumn(offset) ==
    1 + offset - (IF \E i \in 1..offset : text[i] = "\n"
                  THEN CHOOSE i \in 1..offset :
                         text[i] = "\n" /\ \A j \in (i + 1)..offset : text[j] # "\n"
                  ELSE 0)

TruePosition(offset) == [line |-> TrueLine(offset), column |-> TrueColumn(offset)]

\* C10: every token, and every ConfigSyntaxError of the tokenizer, carries the true
\* 1-based line and column of its anchor character, for every input.
\* (Violated: _consume_string advances over a newline inside a string literal
\* without counting a line, so whatever follows the literal is misplaced.)
C10_TruePositions ==
    /\ \A i \in 1..Len(result) : result[i].position = TruePosition(anchors[i])
    /\ tok_state = "error" => tok_error.position = TruePosition(tok_error.anchor)

-----------------------------------------------------------------------------
(* The parser (config_parser.py _Parser), one action per turn of the loop  *)
(* of parse()                                                              *)

MaxTokens == 4

\* float(s) for a str s of the shapes the tokenizer produces: digits (single
\* underscores allowed) on either side of one '.', one sign, surrounding
\* whitespace stripped; the float is carried as its literal; NoneV stands for
\* the ValueError
DotAt(t) == CHOOSE i \in 1..Len(t) : t[i] = "." /\ \A j \in 1..(i - 1) : t[j] # "."

PyFloatParts(whole, fraction, t) ==
    IF /\ whole = <<>> \/ IntBodyOk(whole)
       /\ fraction = <<>> \/ IntBodyOk(fraction)
       /\ whole # <<>> \/ fraction # <<>>
    THEN FloatV(t) ELSE NoneV

PyFloatUnsigned(body, t) ==
    IF Contains(body, ".")
    THEN PyFloatParts(SubSeq(body, 1, DotAt(body) - 1),
                      SubSeq(body, DotAt(body) + 1, Len(body)), t)
    ELSE IF IntBodyOk(body) THEN FloatV(t) ELSE NoneV

PyFloatStripped(t) ==
    IF t # <<>> /\ t[1] \in {"+", "-"} THEN PyFloatUnsigned(Tail(t), t)
    ELSE PyFloatUnsigned(t, t)

PyFloat(s) == PyFloatStripped(Strip(s))

\* str.lower
lower(s) ==
    [i \in 1..Len(s) |->
        IF s[i] \in Range(Uppercase)
        THEN Lowercase[CHOOSE j \in 1..Len(Uppercase) : Uppercase[j] = s[i]]
        ELSE s[i]]

\* data[key] = value
SetItem(data, key, value) ==
    [x \in DOMAIN data \cup {key} |-> IF x = key THEN value ELSE data[x]]

_at_end(idx) == idx >= Len(tokens)
_check(idx, kind) == ~_at_end(idx) /\ tokens[idx + 1].kind = kind

\* what a parser method does: the index it leaves, and the value it returns or
\* the exception it raises
Ok(idx, val) == [st |-> "ok", idx |-> idx, val |-> val, error |-> NoneV]

ConfigSyntaxError(message, idx) ==
    [st |-> "ConfigSyntaxError", idx |-> idx, val |-> NoneV,
     error |-> [message |-> message,
                position |-> IF _at_end(idx) THEN NoneV ELSE tokens[idx + 1].position]]

\* int() and float() raise ValueError
ValueError(idx) ==
    [st |-> "ValueError", idx |-> idx, val |-> NoneV,
     error |-> [message |-> "invalid literal", position |-> NoneV]]

_consume(idx, kind) ==
    IF _check(idx, kind) THEN Ok(idx + 1, tokens[idx + 1])
    ELSE ConfigSyntaxError("Expected token", idx)

_consume_optional_separator(idx, stop_token) ==
    IF _check(idx, stop_token) THEN idx
    ELSE IF _check(idx, ",") THEN idx + 1
    ELSE idx

Converted(idx, number) == IF IsNone(number) THEN ValueError(idx) ELSE Ok(idx, number)

\* `float(literal) if "." in literal else int(literal)`
Number(idx, literal) ==
    Converted(idx, IF Contains(literal, ".") THEN PyFloat(literal) ELSE PyInt(literal))

Identifier(ident, lowered) ==
    CASE lowered = <<"t", "r", "u", "e">> -> BoolV(TRUE)
      [] lowered = <<"f", "a", "l", "s", "e">> -> BoolV(FALSE)
      [] lowered = <<"n", "u", "l", "l">> -> NoneV
      [] OTHER -> StrV(ident)

RECURSIVE _parse_value(_)
RECURSIVE ObjectLoop(_, _)
RECURSIVE ListLoop(_, _)

\* `key = self._consume("IDENT"); self._consume("="); value = self._parse_value()`
Keyed(key, r) ==
    IF r.st # "ok" THEN r ELSE Ok(r.idx, [key |-> key, value |-> r.val])

MemberValue(key, eq) ==
    IF eq.st # "ok" THEN eq ELSE Keyed(key, _parse_value(eq.idx))

MemberEquals(key) ==
    IF key.st # "ok" THEN key ELSE MemberValue(key.val.value, _consume(key.idx, "="))

Member(idx) == MemberEquals(_consume(idx, "IDENT"))

ObjectMember(data, m) ==
    IF m.st # "ok" THEN m
    ELSE ObjectLoop(_consume_optional_separator(m.idx, "}"),
                    SetItem(data, m.val.key, m.val.value))

\* _parse_object, the '{' consumed
ObjectLoop(idx, data) ==
    IF _check(idx, "}") THEN Ok(idx + 1, ObjV(data))
    ELSE ObjectMember(data, Member(idx))

_parse_object(idx) == ObjectLoop(idx, EmptyDict)

ListElement(items, r) ==
    IF r.st # "ok" THEN r
    ELSE ListLoop(_consume_optional_separator(r.idx, ")"), Append(items, r.val))

\* _parse_list, the '(' consumed
ListLoop(idx, items) ==
    IF _check(idx, ")") THEN Ok(idx + 1, ListV(items))
    ELSE ListElement(items, _parse_value(idx))

_parse_list(idx) == ListLoop(idx, <<>>)

_parse_value(idx) ==
    IF _check(idx, "STRING") THEN Ok(idx + 1, StrV(tokens[idx + 1].value))
    ELSE IF _check(idx, "NUMBER") THEN Number(idx + 1, tokens[idx + 1].value)
    ELSE IF _check(idx, "IDENT")
         THEN Ok(idx + 1, Identifier(tokens[idx + 1].value, lower(tokens[idx + 1].value)))
    ELSE IF _check(idx, "{") THEN _parse_object(idx + 1)
    ELSE IF _check(idx, "(") THEN _parse_list(idx + 1)
    ELSE ConfigSyntaxError("Unexpected token", idx)

\* the tokens the token streams are made of: kind and value
Sym(c) == [kind |-> c, value |-> <<c>>]
TokenAlphabet ==
    {[kind |-> "STRING", value |-> <<"s">>],
     [kind |-> "NUMBER", value |-> <<"1">>],
     [kind |-> "NUMBER", value |-> <<"1", ".", "5">>],
     [kind |-> "NUMBER", value |-> <<Sup2>>],
     [kind |-> "IDENT", value |-> <<"n">>],
     [kind |-> "IDENT", value |-> <<"T", "r", "u", "e">>]}
    \cup {Sym(c) : c \in SYMBOLS}

\* the token stream is a run of tokens, at top level or as the body of a member
\* `n = { ... }` or `n = ( ... )`
Bare == [open |-> <<>>, close |-> <<>>]
Wrapped(open, close) ==
    [open |-> <<[kind |-> "IDENT", value |-> <<"n">>], Sym("="), Sym(open)>>,
     close |-> <<Sym(close)>>]
Wraps == {Bare, Wrapped("{", "}"), Wrapped("(", ")")}

\* the width of a token in the text: a string has its two quotes
Width(t) == Len(t.value) + (IF t.kind = "STRING" THEN 2 ELSE 0)

\* the tokens as the tokenizer gives them for one line of text with one blank
\* between tokens
RECURSIVE Layout(_, _)
Layout(ts, col) ==
    IF ts = <<>> THEN <<>>
    ELSE <<Token(Head(ts).kind, Head(ts).value, [line |-> 1, column |-> col])>>
         \o Layout(Tail(ts), col + Width(Head(ts)) + 1)

InitParse ==
    /\ \E body \in SeqsUpTo(TokenAlphabet, MaxTokens), w \in Wraps :
          tokens = Layout(w.open \o body \o w.close, 1)
    /\ p_state = "run" /\ p_index = 0 /\ p_tree = ObjV(EmptyDict) /\ p_error = NoneV
    /\ file = [kind |-> "missing"] /\ fail_fast = FALSE /\ pc = "off"
    /\ rule_idx = 0 /\ rule_pos = 0 /\ findings = <<>> /\ status = -1
    /\ text = <<>> /\ index = 0 /\ line = 1 /\ column = 1
    /\ result = <<>> /\ anchors = <<>> /\ tok_state = "off" /\ tok_error = NoneV
    /\ CoerceOff

\* `config[key.value] = value`, or the exception leaves parse()
Parsed(m) ==
    /\ p_index' = m.idx
    /\ IF m.st = "ok"
       THEN /\ p_tree' = ObjV(SetItem(p_tree.v, m.val.key, m.val.value))
            /\ UNCHANGED <<p_state, p_error>>
       ELSE /\ p_state' = m.st
            /\ p_error' = m.error
            /\ p_tree' = NoneV

ParseMember ==
    /\ p_state = "run" /\ ~_at_end(p_index)
    /\ Parsed(Member(p_index))
    /\ UNCHANGED <<tokens, cliVars, tokVars, coVars>>

\* `return config`
ParseReturn ==
    /\ p_state = "run" /\ _at_end(p_index)
    /\ p_state' = "returned"
    /\ UNCHANGED <<tokens, p_index, p_tree, p_error, cliVars, tokVars, coVars>>

NextParse == ParseMember \/ ParseReturn

SpecParse == InitParse /\ [][NextParse]_vars

\* The grammar: a root is a run of members with no separators; a value is a
\* STRING, NUMBER or IDENT, an object '{' members '}' or a list '(' elements ')';
\* after each member or element of an object or list comes zero or one ','.
Kind(i) == tokens[i].kind

RECURSIVE IsValue(_, _)
RECURSIVE IsMembers(_, _)
RECURSIVE IsElements(_, _)
RECURSIVE IsRoot(_, _)

\* tokens i..j are one value
IsValue(i, j) ==
    \/ i = j /\ Kind(i) \in {"STRING", "NUMBER", "IDENT"}
    \/ i < j /\ Kind(i) = "{" /\ Kind(j) = "}" /\ IsMembers(i + 1, j - 1)
    \/ i < j /\ Kind(i) = "(" /\ Kind(j) = ")" /\ IsElements(i + 1, j - 1)

\* tokens i..j are the members of an object
IsMembers(i, j) ==
    \/ i > j
    \/ /\ i + 2 <= j /\ Kind(i) = "IDENT" /\ Kind(i + 1) = "="
       /\ \E m \in (i + 2)..j :
            /\ IsValue(i + 2, m)
            /\ \/ IsMembers(m + 1, j)
               \/ m < j /\ Kind(m + 1) = "," /\ IsMembers(m + 2, j)

\* tokens i..j are the elements of a list
IsElements(i, j) ==
    \/ i > j
    \/ \E m \in i..j :
         /\ IsValue(i, m)
         /\ \/ IsElements(m + 1, j)
            \/ m < j /\ Kind(m + 1) = "," /\ IsElements(m + 2, j)

\* tokens i..j are the members of the root
IsRoot(i, j) ==
    \/ i > j
    \/ /\ i + 2 <= j /\ Kind(i) = "IDENT" /\ Kind(i + 1) = "="
       /\ \E m \in (i + 2)..j : IsValue(i + 2, m) /\ IsRoot(m + 1, j)

Derivable == IsRoot(1, Len(tokens))

\* C9: for every token sequence the parser either returns a complete root object
\* with its cursor at the end of the stream, exactly when the sequence is
\* derivable from the grammar, or raises ConfigSyntaxError and returns no tree.
\* (Violated: a NUMBER token whose literal int() or float() rejects makes a
\* derivable sequence leave parse() with ValueError.)
C9_AllOrNothing ==
    /\ p_state \in {"run", "returned", "ConfigSyntaxError"}
    /\ p_state = "returned" => p_index = Len(tokens) /\ IsDict(p_tree) /\ Derivable
    /\ p_state = "ConfigSyntaxError" => IsNone(p_tree) /\ ~Derivable

-----------------------------------------------------------------------------
(* Config.hostgroups() against the mysql_servers rule (under Spec)         *)

\* the findings of the mysql_servers rule's per-field checks for one object entry
ServerFieldFindings(entry) ==
    MysqlServersRule_checks(Get(entry.v, "address"),
                            _coerce_int(Get(entry.v, "port")),
                            _coerce_int(Get(entry.v, "hostgroup")),
                            Get(entry.v, "max_connections"), 0)

\* an object entry the rule reports no error for
WellFormedServer(entry) ==
    /\ IsDict(entry)
    /\ \A i \in 1..Len(ServerFieldFindings(entry)) : ~IsError(ServerFieldFindings(entry)[i])

\* the coerced hostgroups of the well-formed entries
WellFormedHostgroups ==
    {_coerce_int(Get(Servers[i].v, "hostgroup")).v :
        i \in {j \in 1..Len(Servers) : WellFormedServer(Servers[j])}}

\* C11: hostgroups() is exactly the set of hostgroup ids of the well-formed entries
\* of mysql_servers: a non-object entry, or an object entry the mysql_servers rule
\* reports an error for, contributes no id. Stated where the mysql_users rule, which
\* calls hostgroups(), has been entered.
\* (Violated: hostgroups() takes the coerced hostgroup of every object entry, also a
\* negative one and that of an entry with an invalid address or port.)
C11_WellFormedHostgroups ==
    Ran /\ rule_idx >= 4 => hostgroups(file.raw) = WellFormedHostgroups

-----------------------------------------------------------------------------
(* Integer coercion at its two call sites: rules/builtin.py _coerce_int    *)
(* (the rules) and config_model.py _coerce_int (hostgroups())              *)

MaxCoerceLen == 3

\* the characters the coerced strings are made of
CoerceChars == {" ", "0", "5", "-", "+", "_", "a"}

\* the values handed to _coerce_int: every kind of value of the tree (an
\* identifier is a string of the tree)
CoerceValues ==
    {StrV(t) : t \in SeqsUpTo(CoerceChars, MaxCoerceLen)}
    \cup {IntV(n) : n \in {-1, 0, 7}}
    \cup {BoolV(b) : b \in BOOLEAN}
    \cup {FloatV(<<"1", ".", "5">>), FloatV(<<"7", ".", "0">>), NoneV,
          ObjV(EmptyDict), ObjV(MkDict([hostgroup |-> IntV(1)])),
          ListV(<<>>), ListV(<<IntV(1)>>)}

InitCoerce ==
    /\ co_value \in CoerceValues
    /\ co_rules = NotCoerced /\ co_model = NotCoerced
    /\ file = [kind |-> "missing"] /\ fail_fast = FALSE /\ pc = "off"
    /\ rule_idx = 0 /\ rule_pos = 0 /\ findings = <<>> /\ status = -1
    /\ text = <<>> /\ index = 0 /\ line = 1 /\ column = 1
    /\ result = <<>> /\ anchors = <<>> /\ tok_state = "off" /\ tok_error = NoneV
    /\ tokens = <<>> /\ p_state = "off" /\ p_index = 0 /\ p_tree = NoneV
    /\ p_error = NoneV

\* a rule calls rules/builtin.py _coerce_int(value)
CoerceInRule ==
    /\ co_rules = NotCoerced
    /\ co_rules' = _coerce_int(co_value)
    /\ UNCHANGED <<co_value, co_model, cliVars, tokVars, parVars>>

\* hostgroups() calls config_model.py _coerce_int(value)
CoerceInModel ==
    /\ co_model = NotCoerced
    /\ co_model' = model_coerce_int(co_value)
    /\ UNCHANGED <<co_value, co_rules, cliVars, tokVars, parVars>>

NextCoerce == CoerceInRule \/ CoerceInModel

SpecCoerce == InitCoerce /\ [][NextCoerce]_vars

\* a string that is fully numeric: one or more digits and nothing else
FullyNumeric(t) == t # <<>> /\ \A i \in 1..Len(t) : IsDigit(t[i])

\* the result the coercion rule gives: 0/1 for a Bool, the value for an Int, the
\* base-10 integer for a fully numeric String, no value for everything else
CoercionRule(value) ==
    CASE value.k = "bool" -> IntV(IF value.v THEN 1 ELSE 0)
      [] value.k = "int" -> value
      [] value.k = "str" /\ FullyNumeric(value.v) -> IntV(IntBodyVal(value.v, 0))
      [] OTHER -> NoneV

\* C12: integer coercion gives the same result at both call sites, and that result
\* is 0/1 for a Bool, the value itself for an Int, the base-10 integer for a fully
\* numeric String, and no value for any other String (one with surrounding
\* whitespace or other non-digit characters) and for every other kind of value.
\* (Violated: int() strips surrounding whitespace and accepts a sign and single
\* underscores between digits, so " 5 ", "+5", "-5" and "5_0" coerce.)
C12_OneCoercion ==
    /\ co_rules # NotCoerced => co_rules = CoercionRule(co_value)
    /\ co_model # NotCoerced => co_model = CoercionRule(co_value)

-----------------------------------------------------------------------------
(* Fail-fast mode of the check command (under Spec)                        *)

HasError(fs) == \E i \in 1..Len(fs) : IsError(fs[i])

FirstError(fs) == CHOOSE i \in 1..Len(fs) : IsError(fs[i]) /\ \A j \in 1..(i - 1) : ~IsError(fs[j])

\* fs up to and including its first error, all of fs when it holds no error
ThroughFirstError(fs) == IF HasError(fs) THEN SubSeq(fs, 1, FirstError(fs)) ELSE fs

\* the findings collected in fail-fast mode against the full sequence
FailFastPrefixOf(full) ==
    /\ findings = SubSeq(full, 1, Len(findings))
    /\ \A i \in 1..(Len(findings) - 1) : ~IsError(findings[i])
    /\ pc = "done" => findings = ThroughFirstError(full)
    /\ HasError(findings) =>
          /\ pc = "done"
          /\ builtin_rules[rule_idx] = findings[Len(findings)].rule

\* C13: in fail-fast mode the findings collected are, at every moment, a prefix of
\* the full sequence of the run without fail-fast, with no error before the last
\* finding; when the command is done they are that sequence up to and including its
\* first error (all of it when it holds none), so warnings before the error are
\* kept; and once an error is collected the command is done with the engine still
\* in the rule that produced it, so no later rule is ever started.
C13_FailFastPrefix ==
    Ran /\ fail_fast => FailFastPrefixOf(InRegistrationOrder(file.raw, 1))

\* a fail-fast run that kept a warning, stopped at an error, and left findings of
\* the full sequence and later rules unvisited
C13_Witness ==
    /\ Ran /\ fail_fast /\ pc = "done"
    /\ Len(findings) >= 2
    /\ findings[1].severity = "warning"
    /\ IsError(findings[Len(findings)])
    /\ Len(findings) < Len(InRegistrationOrder(file.raw, 1))
    /\ rule_idx < Len(builtin_rules)

====
